---- MODULE Spec2Model ----
(***************************************************************************)
(* A model of src/communication/msp.ts (am32-configurator): the MSP frame  *)
(* encoders (V1: XOR checksum, V2: CRC8-DVB-S2), the incremental parser    *)
(* Msp.processResponse, and the correlation of responses to pending        *)
(* requests (sendWithPromise, its 200 ms timer, CommandQueue).             *)
(*                                                                         *)
(* CommandQueue (~/src/communication/commands.queue) and Serial are not    *)
(* part of the modelled source file; CommandQueue is modelled from the     *)
(* design document (one FIFO of one-shot callbacks per command code), and  *)
(* Serial.write / Serial.read are the environment.                         *)
(***************************************************************************)
EXTENDS Integers, Sequences, FiniteSets, TLC

VARIABLES
    \* ---- fields of the Msp instance (msp.ts:55, 194-200)
    commandCount,
    state,
    messageBuffer,           \* the ArrayBuffer; messageBufferUint8View is a view of it
    messageChecksum,
    messageLengthExpected,
    messageLengthReceived,
    command,
    \* ---- CommandQueue: the registered one-shot callbacks, oldest first
    callbacks,
    \* ---- one record per sendWithCallback / sendWithPromise call:
    \*      its promise, its timer and its callback
    waiters,
    \* ---- Serial.write calls and their outcome
    writes,
    \* ---- the last message handed to logError ("none" before the first)
    lastError,
    \* ---- history: every frame handed to CommandQueue.addCommand
    delivered,
    \* ---- environment: chunks Serial.read will still return (main specification)
    readsLeft,
    \* ---- harness of the codec and stream specifications
    input,                   \* the arguments / the scenario drawn by Init
    wire,                    \* the bytes produced by the encoder / the inbound stream
    pos,                     \* number of bytes of wire already fed to the parser
    pc

vars == <<commandCount, state, messageBuffer, messageChecksum,
          messageLengthExpected, messageLengthReceived, command,
          callbacks, waiters, writes, lastError, delivered, readsLeft,
          input, wire, pos, pc>>

mspVars == <<commandCount, state, messageBuffer, messageChecksum,
             messageLengthExpected, messageLengthReceived, command,
             callbacks, waiters, lastError, delivered>>

(***************************************************************************)
(* Bounds of the model.                                                    *)
(***************************************************************************)
MaxLen == 2          \* longest enumerated payload (all byte strings up to it)
MaxSends == 2        \* send / sendWithCallback / sendWithPromise calls per run
MaxReads == 2        \* chunks returned by Serial.read per run
MaxChunk == 16       \* longest chunk Serial.read returns from a stream

(***************************************************************************)
(* Program constants.                                                      *)
(***************************************************************************)
Dollar == 36         \* ascii('$')
CharM == 77          \* ascii('M')
CharX == 88          \* ascii('X')
CharLt == 60         \* ascii('<')
CharGt == 62         \* ascii('>')
V1MaxCommand == 254  \* send: command <= 254 is encoded as V1
CrcPoly == 213       \* 0xD5
ByteMod == 256       \* a Uint8Array element holds value mod 2^8
NullCommand == -1    \* command: MSP_COMMANDS | null = null

(***************************************************************************)
(* Byte arithmetic.                                                        *)
(***************************************************************************)
RECURSIVE XorBits(_, _, _)
XorBits(a, b, n) ==
    IF n = 0 THEN 0
    ELSE (((a % 2) + (b % 2)) % 2) + (2 * XorBits(a \div 2, b \div 2, n - 1))

\* a ^ b (every operand of ^ in msp.ts is a byte)
Xor(a, b) == XorBits(a, b, 8)

\* storing v into a Uint8Array element
ToUint8(v) == v % ByteMod

\* (crc << 1) & 0xFF
Shl1(crc) == (crc * 2) % ByteMod

\* crc & 0x80, as a truth value
HighBit(crc) == (crc % ByteMod) >= 128

(***************************************************************************)
(* crc8DvbS2Data (msp.ts:71-86).  Sequences are 1-based: data[i] of the    *)
(* source is data[i + 1] here.                                             *)
(***************************************************************************)
RECURSIVE CrcShift(_, _)
CrcShift(crc, n) ==
    IF n = 0 THEN crc
    ELSE CrcShift(IF HighBit(crc) THEN Xor(Shl1(crc), CrcPoly) ELSE Shl1(crc), n - 1)

\* the outer loop over data[start .. end-1], from crc.  The range is walked in
\* order; it is split in halves, the first half evaluated before the second,
\* only to keep TLC's evaluation stack shallow on 256-byte payloads
RECURSIVE CrcLoop(_, _, _, _)
CrcLoop(data, i, end, crc) ==
    IF i >= end THEN crc
    ELSE IF i + 1 = end THEN CrcShift(Xor(crc, data[i + 1]), 8)
    ELSE LET mid == (i + end) \div 2
             left == CrcLoop(data, i, mid, crc)
         IN  IF left \in 0..255 THEN CrcLoop(data, mid, end, left) ELSE left

\* mutant: the range stops one byte early
crc8DvbS2Data_ShortRange(data, start, end) == CrcLoop(data, start, end - 1, 0)

crc8DvbS2Data(data, start, end) == CrcLoop(data, start, end, 0)

(***************************************************************************)
(* encodeV1 (msp.ts:95-121).                                               *)
(***************************************************************************)
\* the loop of lines 110-113: checksum ^= data[i] for i = lo-1 .. hi-1, in order
\* (the range is split in halves to keep the evaluation shallow)
RECURSIVE XorRange(_, _, _, _)
XorRange(acc, s, lo, hi) ==
    IF lo > hi THEN acc
    ELSE IF lo = hi THEN Xor(acc, s[lo])
    ELSE LET mid == (lo + hi) \div 2
             left == XorRange(acc, s, lo, mid)
         IN  IF left \in 0..255 THEN XorRange(left, s, mid + 1, hi) ELSE left

XorAll(acc, s) == XorRange(acc, s, 1, Len(s))

\* mutant: the checksum leaves out the length byte
encodeV1_NoLength(cmd, data) ==
    LET b3 == ToUint8(Len(data))
        b4 == ToUint8(cmd)
    IN  <<Dollar, CharM, CharLt, b3, b4>> \o data \o <<XorAll(b4, data)>>

encodeV1(cmd, data) ==
    LET b3 == ToUint8(Len(data))
        b4 == ToUint8(cmd)
    IN  IF Len(data) > 0
        THEN <<Dollar, CharM, CharLt, b3, b4>> \o data \o <<XorAll(Xor(b3, b4), data)>>
        ELSE <<Dollar, CharM, CharLt, b3, b4, Xor(b3, b4)>>

(***************************************************************************)
(* encodeV2 (msp.ts:130-153).                                              *)
(***************************************************************************)
V2CrcStart == 3      \* crc8DvbS2Data(bufView, 3, size - 1)

encodeV2(cmd, data) ==
    LET dataLength == Len(data)
        size == 9 + dataLength
        body == <<Dollar, CharX, CharLt, 0,
                  cmd % ByteMod, (cmd \div ByteMod) % ByteMod,
                  dataLength % ByteMod, (dataLength \div ByteMod) % ByteMod>> \o data
    IN  body \o <<crc8DvbS2Data(body, V2CrcStart, size - 1)>>

(***************************************************************************)
(* The Msp instance with the queue and the waiters as one record, so that  *)
(* processResponse is a function of it and of the chunk.                   *)
(***************************************************************************)
Cur ==
    [commandCount |-> commandCount, state |-> state,
     messageBuffer |-> messageBuffer, messageChecksum |-> messageChecksum,
     messageLengthExpected |-> messageLengthExpected,
     messageLengthReceived |-> messageLengthReceived, command |-> command,
     callbacks |-> callbacks, waiters |-> waiters, lastError |-> lastError,
     delivered |-> delivered]

Install(m) ==
    /\ commandCount' = m.commandCount
    /\ state' = m.state
    /\ messageBuffer' = m.messageBuffer
    /\ messageChecksum' = m.messageChecksum
    /\ messageLengthExpected' = m.messageLengthExpected
    /\ messageLengthReceived' = m.messageLengthReceived
    /\ command' = m.command
    /\ callbacks' = m.callbacks
    /\ waiters' = m.waiters
    /\ lastError' = m.lastError
    /\ delivered' = m.delivered

\* the instance after construction (msp.ts:55, 194-200), nothing registered
NewMsp ==
    [commandCount |-> 0, state |-> 0,
     messageBuffer |-> <<>>, messageChecksum |-> 0,
     messageLengthExpected |-> 0, messageLengthReceived |-> 0,
     command |-> NullCommand,
     callbacks |-> <<>>, waiters |-> <<>>, lastError |-> "none",
     delivered |-> <<>>]

InitMsp ==
    /\ commandCount = NewMsp.commandCount
    /\ state = NewMsp.state
    /\ messageBuffer = NewMsp.messageBuffer
    /\ messageChecksum = NewMsp.messageChecksum
    /\ messageLengthExpected = NewMsp.messageLengthExpected
    /\ messageLengthReceived = NewMsp.messageLengthReceived
    /\ command = NewMsp.command
    /\ callbacks = NewMsp.callbacks
    /\ waiters = NewMsp.waiters
    /\ lastError = NewMsp.lastError
    /\ delivered = NewMsp.delivered

(***************************************************************************)
(* The callback sendWithPromise registers (msp.ts:187-190):                *)
(*     clearTimeout(timeout); resolve(response)                            *)
(* clearTimeout of a timer that has fired does nothing; resolve on a       *)
(* promise that is settled does nothing.  A callback registered through    *)
(* sendWithCallback directly is the caller's: the model only counts it.    *)
(***************************************************************************)
\* mutant: the timer is left running
clearTimeout_Forgotten(w) == w

clearTimeout(w) == IF w.timer = "armed" THEN [w EXCEPT !.timer = "cleared"] ELSE w

\* mutant: a settled promise is settled again
resolve_Again(w, response) == [w EXCEPT !.promise = "resolved", !.result = response]

resolve(w, response) ==
    IF w.promise = "pending"
    THEN [w EXCEPT !.promise = "resolved", !.result = response]
    ELSE w

\* mutant: the timer callback does not reject
reject_Ignored(w) == w

reject(w) == IF w.promise = "pending" THEN [w EXCEPT !.promise = "rejected"] ELSE w

InvokeCallback(w, response) ==
    LET called == [w EXCEPT !.calls = @ + 1]
    IN  IF w.kind = "promise" THEN resolve(clearTimeout(called), response)
        ELSE called

(***************************************************************************)
(* CommandQueue, modelled from the design document: addCallback appends a  *)
(* one-shot callback for a command code; addCommand hands a validated      *)
(* frame to the oldest callback registered for the frame's code and        *)
(* removes it; a frame nobody waits for is dropped.                        *)
(***************************************************************************)
RECURSIVE OldestIndex(_, _, _, _)
OldestIndex(q, ws, code, i) ==
    IF i > Len(q) THEN 0
    ELSE IF ws[q[i]].command = code THEN i
    ELSE OldestIndex(q, ws, code, i + 1)

RemoveAt(q, i) == SubSeq(q, 1, i - 1) \o SubSeq(q, i + 1, Len(q))

addCallback(m, id) == [m EXCEPT !.callbacks = Append(@, id)]

\* a correlated send that is outstanding: its callback has not been called and
\* its timer (if it has one) has not fired
Outstanding(w) == w.calls = 0 /\ w.timer # "fired"

\* history only: the oldest outstanding correlated send for `code` (0: none)
RECURSIVE OldestPending(_, _, _)
OldestPending(ws, code, i) ==
    IF i > Len(ws) THEN 0
    ELSE IF ws[i].command = code /\ Outstanding(ws[i]) THEN i
    ELSE OldestPending(ws, code, i + 1)

addCommand(m, commandName, data) ==
    LET i == OldestIndex(m.callbacks, m.waiters, commandName, 1)
        id == IF i = 0 THEN 0 ELSE m.callbacks[i]
        entry == [command |-> commandName, payload |-> data, to |-> id,
                  oldest |-> OldestPending(m.waiters, commandName, 1)]
    IN  IF i = 0
        THEN [m EXCEPT !.delivered = Append(@, entry)]
        ELSE [m EXCEPT !.delivered = Append(@, entry),
                       !.callbacks = RemoveAt(@, i),
                       !.waiters[id] = InvokeCallback(@, data)]

(***************************************************************************)
(* processResponse (msp.ts:213-288): one iteration of its loop, then the   *)
(* loop over the chunk.                                                    *)
(***************************************************************************)
\* mutant: the count of received payload bytes is not reset
ResetFrame_KeepReceived(m) ==
    [m EXCEPT !.state = 0, !.messageBuffer = <<>>, !.messageChecksum = 0,
              !.messageLengthExpected = 0, !.command = NullCommand]

ResetFrame(m) ==
    [m EXCEPT !.state = 0, !.messageBuffer = <<>>, !.messageChecksum = 0,
              !.messageLengthExpected = 0, !.messageLengthReceived = 0,
              !.command = NullCommand]

\* mutant: the checksum byte is not compared
OnChecksum_Accept(m, char) ==
    ResetFrame(addCommand([m EXCEPT !.commandCount = @ - 1], m.command, m.messageBuffer))

\* mutant: the counter is decremented outside the comparison
OnChecksum_CountAlways(m, char) ==
    ResetFrame(IF m.messageChecksum = char
               THEN addCommand([m EXCEPT !.commandCount = @ - 1],
                               m.command, m.messageBuffer)
               ELSE [m EXCEPT !.commandCount = @ - 1])

\* case 6 (msp.ts:266-285)
OnChecksum(m, char) ==
    ResetFrame(IF m.messageChecksum = char
               THEN addCommand([m EXCEPT !.commandCount = @ - 1],
                               m.command, m.messageBuffer)
               ELSE m)

\* case 0 (msp.ts:216-220)
OnDollar(m, char) == IF char = Dollar THEN [m EXCEPT !.state = @ + 1] ELSE m

\* mutant: the V2 marker is taken for a frame start too
OnMarker_AcceptX(m, char) ==
    IF char \in {CharM, CharX} THEN [m EXCEPT !.state = @ + 1] ELSE [m EXCEPT !.state = 0]

\* mutant: the marker stage waits for an 'M'
OnMarker_Wait(m, char) == IF char = CharM THEN [m EXCEPT !.state = @ + 1] ELSE m

\* case 1 (msp.ts:221-227)
OnMarker(m, char) ==
    IF char = CharM THEN [m EXCEPT !.state = @ + 1] ELSE [m EXCEPT !.state = 0]

\* mutant: only the response direction is accepted
OnDirection_ResponseOnly(m, char) ==
    IF char = CharGt THEN [m EXCEPT !.state = @ + 1]
    ELSE [m EXCEPT !.state = 0, !.lastError = "Unknown msp command direction"]

\* case 2 (msp.ts:228-235)
OnDirection(m, char) ==
    IF char \in {CharLt, CharGt} THEN [m EXCEPT !.state = @ + 1]
    ELSE [m EXCEPT !.state = 0, !.lastError = "Unknown msp command direction"]

\* case 3 (msp.ts:236-244)
OnLength(m, char) ==
    [m EXCEPT !.messageLengthExpected = char, !.messageChecksum = char,
              !.messageBuffer = [i \in 1..char |-> 0],
              !.state = @ + 1]

\* mutant: the payload stage is entered for an empty payload too
OnCommand_AlwaysPayload(m, char) ==
    [m EXCEPT !.command = char, !.messageChecksum = Xor(@, char),
              !.state = @ + 1]

\* case 4 (msp.ts:245-256)
OnCommand(m, char) ==
    [m EXCEPT !.command = char, !.messageChecksum = Xor(@, char),
              !.state = IF m.messageLengthExpected > 0 THEN @ + 1 ELSE @ + 2]

\* the three assignments of case 5 (msp.ts:258-260)
StorePayload(m, char) ==
    [m EXCEPT \* a store outside a typed array's bounds is ignored
              !.messageBuffer =
                  IF m.messageLengthReceived < Len(@)
                  THEN [@ EXCEPT ![m.messageLengthReceived + 1] = char]
                  ELSE @,
              !.messageChecksum = Xor(@, char),
              !.messageLengthReceived = @ + 1]

\* case 5 (msp.ts:257-265)
OnPayload(m, char) ==
    LET w == StorePayload(m, char)
    IN  IF w.messageLengthReceived >= w.messageLengthExpected
        THEN [w EXCEPT !.state = @ + 1] ELSE w

\* the switch (msp.ts:215-286)
ParseByte(m, char) ==
    CASE m.state = 0 -> OnDollar(m, char)
      [] m.state = 1 -> OnMarker(m, char)
      [] m.state = 2 -> OnDirection(m, char)
      [] m.state = 3 -> OnLength(m, char)
      [] m.state = 4 -> OnCommand(m, char)
      [] m.state = 5 -> OnPayload(m, char)
      [] m.state = 6 -> OnChecksum(m, char)
      [] OTHER -> m

\* the loop over data[lo .. hi], in order (split in halves to keep the
\* evaluation shallow)
RECURSIVE ParseRange(_, _, _, _)
ParseRange(m, data, lo, hi) ==
    IF lo > hi THEN m
    ELSE IF lo = hi THEN ParseByte(m, data[lo])
    ELSE LET mid == (lo + hi) \div 2
             left == ParseRange(m, data, lo, mid)
         IN  IF left.state \in 0..6 THEN ParseRange(left, data, mid + 1, hi) ELSE left

\* mutant: the parser's fields do not survive between calls
processResponse_Fresh(m, data) == ParseRange(ResetFrame(m), data, 1, Len(data))

processResponse(m, data) == ParseRange(m, data, 1, Len(data))

(***************************************************************************)
(* send (msp.ts:155-173), up to the call of Serial.write: the frame it     *)
(* hands to Serial.write, and the instance with the counter incremented.   *)
(* hasData = FALSE is a call without the data argument.                    *)
(***************************************************************************)
OrEmpty(hasData, data) == IF hasData THEN data ELSE <<>>

\* mutant: the V1 range ends one code early
sendFrame_Below(cmd, hasData, data) ==
    IF cmd < V1MaxCommand
    THEN encodeV1(cmd, OrEmpty(hasData, data))
    ELSE encodeV2(cmd, OrEmpty(hasData, data))

sendFrame(cmd, hasData, data) ==
    IF cmd <= V1MaxCommand
    THEN encodeV1(cmd, OrEmpty(hasData, data))
    ELSE encodeV2(cmd, OrEmpty(hasData, data))

\* mutant: the send is not counted
sendCount_Lost(m) == m

sendCount(m) == [m EXCEPT !.commandCount = @ + 1]

(***************************************************************************)
(* Inputs of the codec specification.                                      *)
(***************************************************************************)
V1MaxLen == 255      \* largest value of the one-byte length field

PayloadBytes == {0, Dollar, 255}

RECURSIVE SeqsUpTo(_, _)
SeqsUpTo(S, n) ==
    IF n = 0 THEN {<<>>}
    ELSE LET shorter == SeqsUpTo(S, n - 1)
         IN  shorter \cup {Append(p, b) : p \in {q \in shorter : Len(q) = n - 1}, b \in S}

ShortData == SeqsUpTo(PayloadBytes, MaxLen)

\* payloads at and just above the limit of the V1 length byte
LongData == {[i \in 1..n |-> (7 * i) % ByteMod] : n \in {V1MaxLen, V1MaxLen + 1}}

CodecCommands == (0..257) \cup {12291, 65535}
LongCommands == {1, 245, 254, 255, 12291}

CodecInputs ==
    {[command |-> c, hasData |-> TRUE, data |-> d] : c \in CodecCommands, d \in ShortData}
    \cup {[command |-> c, hasData |-> FALSE, data |-> <<>>] : c \in CodecCommands}
    \cup {[command |-> c, hasData |-> TRUE, data |-> d] : c \in LongCommands, d \in LongData}

InitCodec ==
    /\ InitMsp
    /\ writes = <<>>
    /\ readsLeft = 0
    /\ input \in CodecInputs
    /\ wire = <<>>
    /\ pos = 0
    /\ pc = "input"

\* a direct call of encodeV1
CallEncodeV1 ==
    /\ pc = "input"
    /\ wire' = encodeV1(input.command, input.data)
    /\ pc' = "encodeV1"
    /\ UNCHANGED <<mspVars, writes, readsLeft, input, pos>>

\* a direct call of encodeV2
CallEncodeV2 ==
    /\ pc = "input"
    /\ wire' = encodeV2(input.command, input.data)
    /\ pc' = "encodeV2"
    /\ UNCHANGED <<mspVars, writes, readsLeft, input, pos>>

\* send(command, data?) up to its await of Serial.write
CallSend ==
    /\ pc = "input"
    /\ LET frame == sendFrame(input.command, input.hasData, input.data)
       IN  /\ wire' = frame
           /\ writes' = Append(writes, [frame |-> frame, status |-> "pending"])
    /\ Install(sendCount(Cur))
    /\ pc' = "send"
    /\ UNCHANGED <<readsLeft, input, pos>>

\* the device echoes the frame as a response: direction '<' becomes '>'
SwapDirection(frame) == [frame EXCEPT ![3] = IF @ = CharLt THEN CharGt ELSE @]

Echo ==
    /\ pc \in {"encodeV1", "encodeV2", "send"}
    /\ pos = 0
    /\ Install(processResponse(Cur, SwapDirection(wire)))
    /\ pos' = Len(wire)
    /\ UNCHANGED <<writes, readsLeft, input, wire, pc>>

NextCodec == CallEncodeV1 \/ CallEncodeV2 \/ CallSend \/ Echo

SpecCodec == InitCodec /\ [][NextCodec]_vars

(***************************************************************************)
(* Claims on the codec (checked under SpecCodec).                          *)
(***************************************************************************)
Echoed == pc \in {"encodeV1", "encodeV2", "send"} /\ pos = Len(wire)

\* the frame the parser hands to the queue when nobody waits for it
Frame(c, p) == [command |-> c, payload |-> p, to |-> 0, oldest |-> 0]

\* C1: V1 round trip.  For every command 1..254 and every payload of at most 255
\* bytes, the bytes of encodeV1(cmd, payload) with '<' replaced by '>', fed to
\* processResponse on a parser in WAIT_DOLLAR, emit exactly one frame, with that
\* command and that payload, and leave the parser in WAIT_DOLLAR.
C1_RoundTripV1 ==
    (Echoed /\ pc = "encodeV1" /\ input.command \in 1..254 /\ Len(input.data) <= 255)
        => /\ delivered = <<Frame(input.command, input.data)>>
           /\ state = 0

C1_Witness ==
    /\ Echoed /\ pc = "encodeV1"
    /\ input.command = 254 /\ Len(input.data) = 255
    /\ Len(delivered) = 1 /\ delivered[1].payload = input.data

\* C4: outgoing format selection.  send(command, data) hands Serial.write a V1
\* frame ('$','M','<', 6 + len bytes) when command <= 254 and a V2 frame
\* ('$','X','<', flag 0, 9 + len bytes) when command > 254; a call without data
\* encodes an empty payload.
C4_SendSelectsFormat ==
    pc = "send" =>
        /\ Len(writes) = 1
        /\ LET f == writes[1].frame
               n == IF input.hasData THEN Len(input.data) ELSE 0
           IN  IF input.command <= 254
               THEN /\ SubSeq(f, 1, 3) = <<36, 77, 60>>
                    /\ Len(f) = 6 + n
                    /\ (~input.hasData => f[4] = 0)
               ELSE /\ SubSeq(f, 1, 4) = <<36, 88, 60, 0>>
                    /\ Len(f) = 9 + n
                    /\ (~input.hasData => f[7] = 0 /\ f[8] = 0)

C4_Witness ==
    /\ pc = "send" /\ input.command = 255 /\ Len(input.data) = 2
    /\ writes[1].frame[2] = 88 /\ Len(writes[1].frame) = 11

\* An independent CRC8-DVB-S2: the remainder register as the set of its one
\* bits, fed one message bit at a time, most significant bit first; the
\* polynomial 0xD5 = x^7 + x^6 + x^4 + x^2 + 1 (and x^8) is the set {7,6,4,2,0}.
RefPoly == {0, 2, 4, 6, 7}

RefBit(byte, j) == (byte \div (2 ^ j)) % 2 = 1

RefFeedBit(reg, bit) ==
    LET shifted == {k + 1 : k \in reg \ {7}}
    IN  IF (7 \in reg) # bit
        THEN (shifted \ RefPoly) \cup (RefPoly \ shifted)
        ELSE shifted

RefFeedByte(reg, byte) ==
    LET r7 == RefFeedBit(reg, RefBit(byte, 7))
        r6 == RefFeedBit(r7, RefBit(byte, 6))
        r5 == RefFeedBit(r6, RefBit(byte, 5))
        r4 == RefFeedBit(r5, RefBit(byte, 4))
        r3 == RefFeedBit(r4, RefBit(byte, 3))
        r2 == RefFeedBit(r3, RefBit(byte, 2))
        r1 == RefFeedBit(r2, RefBit(byte, 1))
    IN  RefFeedBit(r1, RefBit(byte, 0))

RECURSIVE RefFeed(_, _, _, _)
RefFeed(reg, bytes, lo, hi) ==
    IF lo > hi THEN reg
    ELSE IF lo = hi THEN RefFeedByte(reg, bytes[lo])
    ELSE LET mid == (lo + hi) \div 2
             left == RefFeed(reg, bytes, lo, mid)
         IN  IF left \subseteq 0..7 THEN RefFeed(left, bytes, mid + 1, hi) ELSE left

RECURSIVE RefValue(_)
RefValue(reg) ==
    IF reg = {} THEN 0
    ELSE LET k == CHOOSE x \in reg : TRUE IN (2 ^ k) + RefValue(reg \ {k})

RefCrc8(bytes) == RefValue(RefFeed({}, bytes, 1, Len(bytes)))

\* C5: V2 checksum.  For every command 255..65535 and every payload, the last
\* byte of encodeV2(command, payload) is the CRC8-DVB-S2 of flag (0), command
\* (two bytes, little-endian), length (two bytes, little-endian) and payload;
\* the CRC of an empty range is 0.
C5_V2Checksum ==
    (pc = "encodeV2" /\ input.command \in 255..65535) =>
        LET n == Len(input.data)
            covered == <<0, input.command % 256, input.command \div 256,
                         n % 256, n \div 256>> \o input.data
        IN  /\ Len(wire) = 9 + n
            /\ SubSeq(wire, 4, 8 + n) = covered
            /\ wire[Len(wire)] = RefCrc8(covered)
            /\ crc8DvbS2Data(wire, 3, 3) = 0

C5_Witness ==
    /\ pc = "encodeV2" /\ input.command = 12291 /\ input.data = <<255, 36>>
    /\ wire[Len(wire)] # 0

\* C6: oversized V1 payloads are rejected.  Encoding (and so sending) a command
\* <= 254 with more than 255 payload bytes yields no frame, and no V1 frame
\* carries a length byte that differs from its number of payload bytes.
C6_OversizedRejected ==
    (pc \in {"encodeV1", "send"} /\ input.command <= 254) =>
        /\ (Len(input.data) > 255 => wire = <<>>)
        /\ (wire # <<>> => wire[4] = Len(wire) - 6)

(***************************************************************************)
(* The stream specification: an inbound byte stream, fixed by Init, that   *)
(* Serial.read returns in chunks of any size; read (msp.ts:202-211) hands  *)
(* each chunk to processResponse.                                          *)
(***************************************************************************)
\* a V1 frame as the device puts it on the wire (direction '>' for a
\* response), checksum = XOR of length, command and payload
V1Frame(dir, c, p) == <<Dollar, CharM, dir, Len(p), c>> \o p \o <<XorAll(Xor(Len(p), c), p)>>

FrameBytes(f) == V1Frame(f.dir, f.command, f.payload)

StreamCommands == {1, Dollar}
NoiseBytes == {0, Dollar, CharM, CharGt}
NoiseLen == MaxLen + 3
JunkBytes == {0, Dollar, CharM}     \* stray bytes in front of a frame

AnyFrames ==
    {[dir |-> d, command |-> c, payload |-> p] :
        d \in {CharLt, CharGt}, c \in StreamCommands, p \in ShortData}
NextFrames ==
    {[dir |-> CharGt, command |-> c, payload |-> p] :
        c \in {1, 2}, p \in {<<>>, <<Dollar>>}}

Scenarios ==
    {[kind |-> "frames", frames |-> <<f>>] : f \in AnyFrames}
    \cup {[kind |-> "frames", frames |-> <<f, g>>] : f \in AnyFrames, g \in NextFrames}
    \cup {[kind |-> "corrupt", first |-> f, at |-> i, value |-> v, second |-> g] :
            f \in {x \in AnyFrames : x.dir = CharGt}, i \in 1..MaxLen,
            v \in PayloadBytes \cup {1}, g \in NextFrames}
    \cup {[kind |-> "noise", bytes |-> b] : b \in SeqsUpTo(NoiseBytes, NoiseLen)}
    \cup {[kind |-> "frames", frames |-> <<[dir |-> CharGt, command |-> 1, payload |-> p]>>] :
            p \in {d \in LongData : Len(d) = V1MaxLen}}
    \cup {[kind |-> "resync", junk |-> j, second |-> g] :
            j \in SeqsUpTo(JunkBytes, MaxLen) \ {<<>>}, g \in NextFrames}

\* the first frame with payload byte `at` replaced by `value`, every other byte
\* (header, length, command, checksum) as in the valid frame
Corrupted(sc) == [FrameBytes(sc.first) EXCEPT ![5 + sc.at] = sc.value]

StreamOf(sc) ==
    CASE sc.kind = "frames" ->
            IF Len(sc.frames) = 1 THEN FrameBytes(sc.frames[1])
            ELSE FrameBytes(sc.frames[1]) \o FrameBytes(sc.frames[2])
      [] sc.kind = "corrupt" -> Corrupted(sc) \o FrameBytes(sc.second)
      [] sc.kind = "resync" -> sc.junk \o FrameBytes(sc.second)
      [] OTHER -> sc.bytes

\* a corruption changes a byte that exists, to a different value
WellFormed(sc) ==
    sc.kind = "corrupt" =>
        /\ sc.at <= Len(sc.first.payload)
        /\ sc.value # sc.first.payload[sc.at]

InitStream ==
    /\ InitMsp
    /\ writes = <<>>
    /\ readsLeft = 0
    /\ input \in {sc \in Scenarios : WellFormed(sc)}
    /\ wire = StreamOf(input)
    /\ pos = 0
    /\ pc = "stream"

\* read(): Serial.read returned the next k bytes of the stream, k <= MaxChunk
ReadStream ==
    /\ pc = "stream"
    /\ \E k \in 1..MaxChunk :
        /\ pos + k <= Len(wire)
        /\ Install(processResponse(Cur, SubSeq(wire, pos + 1, pos + k)))
        /\ pos' = pos + k
    /\ UNCHANGED <<writes, readsLeft, input, wire, pc>>

NextStream == ReadStream

SpecStream == InitStream /\ [][NextStream]_vars

(***************************************************************************)
(* Claims on the parser fed from a stream (checked under SpecStream).      *)
(***************************************************************************)
\* C2: chunking invariance.  However the stream is cut into chunks, after the
\* chunks read so far the instance (parser fields, frames emitted, counter) is
\* what one processResponse call on the same bytes, from the initial parser,
\* produces.
C2_ChunkingInvariant ==
    pc = "stream" => Cur = processResponse(NewMsp, SubSeq(wire, 1, pos))

\* a chunk ended inside the payload of the second of two frames
C2_Witness ==
    /\ pc = "stream" /\ input.kind = "frames" /\ Len(input.frames) = 2
    /\ state = 5 /\ Len(delivered) = 1
    /\ pos = Len(FrameBytes(input.frames[1])) + 5

\* C3: payload corruption and recovery.  A valid V1 frame with one payload byte
\* changed to another value, followed by a valid frame: the parser emits no
\* frame for the corrupted one and emits the following frame, with its command
\* and payload.
C3_CorruptionRecovery ==
    (pc = "stream" /\ input.kind = "corrupt") =>
        LET next == Frame(input.second.command, input.second.payload)
        IN  /\ delivered \in {<<>>, <<next>>}
            /\ (pos <= Len(Corrupted(input)) => delivered = <<>>)
            /\ (pos = Len(wire) => delivered = <<next>> /\ state = 0)

C3_Witness ==
    /\ pc = "stream" /\ input.kind = "corrupt" /\ input.at = 2
    /\ pos = Len(wire) /\ Len(delivered) = 1
    /\ delivered[1].payload = input.second.payload

(***************************************************************************)
(* The main specification: sends, Serial.write outcomes, the timers of     *)
(* sendWithPromise and inbound frames, in every interleaving.              *)
(***************************************************************************)
SendCommands == {1, 12291}       \* codes of sendWithPromise calls
CallbackCommands == {2}          \* codes of sendWithCallback calls
PlainCommands == {1}             \* codes of send calls

\* what Serial.read returns: response frames, a request-direction frame, a
\* frame with a wrong checksum, a V2 response
BadChecksum(f) == [f EXCEPT ![Len(f)] = (f[Len(f)] + 1) % ByteMod]

InboundChunks ==
    {V1Frame(CharGt, 1, <<>>), V1Frame(CharGt, 1, <<Dollar>>), V1Frame(CharGt, 2, <<>>),
     V1Frame(CharLt, 1, <<>>),
     BadChecksum(V1Frame(CharGt, 1, <<Dollar>>)),
     SwapDirection(encodeV2(12291, <<>>))}

NewWaiter(kind, c) ==
    [command |-> c, kind |-> kind,
     promise |-> IF kind = "promise" THEN "pending" ELSE "none",
     result |-> <<>>,
     timer |-> IF kind = "promise" THEN "armed" ELSE "none",
     calls |-> 0]

\* sendWithCallback (msp.ts:175-179) up to send's await: the callback is
\* registered, then send runs
sendWithCallback(m, kind, c) ==
    sendCount(addCallback([m EXCEPT !.waiters = Append(@, NewWaiter(kind, c))],
                          Len(m.waiters) + 1))

Init ==
    /\ InitMsp
    /\ writes = <<>>
    /\ readsLeft = MaxReads
    /\ input = "none"
    /\ wire = <<>>
    /\ pos = 0
    /\ pc = "run"

harness == <<input, wire, pos, pc>>

\* send(command): the frame is encoded, the counter incremented and
\* Serial.write called; send then awaits the write
Send ==
    /\ Len(writes) < MaxSends
    /\ \E c \in PlainCommands :
        writes' = Append(writes, [frame |-> sendFrame(c, FALSE, <<>>), status |-> "pending"])
    /\ Install(sendCount(Cur))
    /\ UNCHANGED <<readsLeft, harness>>

\* sendWithCallback(command, callback) with a callback of the caller's
SendWithCallback ==
    /\ Len(writes) < MaxSends
    /\ \E c \in CallbackCommands :
        /\ writes' = Append(writes, [frame |-> sendFrame(c, FALSE, <<>>), status |-> "pending"])
        /\ Install(sendWithCallback(Cur, "callback", c))
    /\ UNCHANGED <<readsLeft, harness>>

\* sendWithPromise(command) (msp.ts:181-192): the timer is started, the
\* resolving callback registered, the frame written
SendWithPromise ==
    /\ Len(writes) < MaxSends
    /\ \E c \in SendCommands :
        /\ writes' = Append(writes, [frame |-> sendFrame(c, FALSE, <<>>), status |-> "pending"])
        /\ Install(sendWithCallback(Cur, "promise", c))
    /\ UNCHANGED <<readsLeft, harness>>

\* the write that Serial completes next: the oldest one pending (the writes of
\* one serial port complete in the order they were issued); 0: none
RECURSIVE NextWrite(_, _)
NextWrite(ws, i) ==
    IF i > Len(ws) THEN 0
    ELSE IF ws[i].status = "pending" THEN i
    ELSE NextWrite(ws, i + 1)

\* Serial.write succeeded: send returns its result
WriteDone ==
    /\ NextWrite(writes, 1) # 0
    /\ writes' = [writes EXCEPT ![NextWrite(writes, 1)].status = "ok"]
    /\ UNCHANGED <<mspVars, readsLeft, harness>>

\* Serial.write threw: send logs the error and returns null (msp.ts:169-172)
WriteFail ==
    /\ NextWrite(writes, 1) # 0
    /\ writes' = [writes EXCEPT ![NextWrite(writes, 1)].status = "failed"]
    /\ lastError' = "MSP command failed"
    /\ UNCHANGED <<commandCount, state, messageBuffer, messageChecksum,
                   messageLengthExpected, messageLengthReceived, command,
                   callbacks, waiters, delivered, readsLeft, harness>>

\* the 200 ms timer of a sendWithPromise call fires (msp.ts:183-185).  All
\* timers have the same delay, so they fire in the order they were started.
TimerFire ==
    /\ \E id \in 1..Len(waiters) :
        /\ waiters[id].timer = "armed"
        /\ \A j \in 1..(id - 1) : waiters[j].timer # "armed"
        /\ waiters' = [waiters EXCEPT ![id] = reject([@ EXCEPT !.timer = "fired"])]
    /\ UNCHANGED <<commandCount, state, messageBuffer, messageChecksum,
                   messageLengthExpected, messageLengthReceived, command,
                   callbacks, lastError, delivered, writes, readsLeft, harness>>

\* read() (msp.ts:202-211): Serial.read returned a chunk
Read ==
    /\ readsLeft > 0
    /\ \E chunk \in InboundChunks : Install(processResponse(Cur, chunk))
    /\ readsLeft' = readsLeft - 1
    /\ UNCHANGED <<writes, harness>>

Next ==
    \/ Send
    \/ SendWithCallback
    \/ SendWithPromise
    \/ WriteDone
    \/ WriteFail
    \/ TimerFire
    \/ Read

Spec == Init /\ [][Next]_vars

(***************************************************************************)
(* Claims on the correlation of responses (checked under Spec).            *)
(***************************************************************************)
Promises == {id \in 1..Len(waiters) : waiters[id].kind = "promise"}

\* C7: FIFO correlation per command code.  Every validated frame that arrives
\* while correlated sends for its code are outstanding goes to the oldest of
\* them (so the k-th frame settles the k-th waiter), which is resolved with that
\* frame's payload; other codes do not matter.
C7_FifoPerCode ==
    \A k \in 1..Len(delivered) :
        LET e == delivered[k]
        IN  e.oldest # 0 =>
                /\ e.to = e.oldest
                /\ waiters[e.oldest].kind = "promise" =>
                       /\ waiters[e.oldest].promise = "resolved"
                       /\ waiters[e.oldest].result = e.payload

\* C8: timeout and stale response.  A sendWithPromise call whose timer has
\* fired is rejected, and stays rejected when a matching frame arrives later
\* and its callback is called.
C8_TimeoutThenStale ==
    \A id \in Promises :
        waiters[id].timer = "fired" =>
            /\ waiters[id].promise = "rejected"
            /\ waiters[id].result = <<>>

\* the timer fired, then a frame for the code arrived and reached the callback
C8_Witness ==
    \E id \in Promises :
        /\ waiters[id].timer = "fired" /\ waiters[id].calls = 1
        /\ waiters[id].promise = "rejected"
        /\ \E k \in 1..Len(delivered) : delivered[k].to = id

\* C9: the registration is removed on timer expiry.  No callback of a timed-out
\* sendWithPromise call stays registered, and none is called by a later frame
\* (which therefore reaches the next request for the code).
C9_ExpiredRemoved ==
    /\ \A i \in 1..Len(callbacks) : waiters[callbacks[i]].timer # "fired"
    /\ \A id \in Promises : waiters[id].timer = "fired" => waiters[id].calls = 0

\* C10: exactly-once settlement.  In every step, a settled promise keeps its
\* outcome and its value; a promise is resolved only by a frame of its code
\* handed to its callback, with that frame's payload, and then its timer is
\* cleared (it never fires); a promise whose timer has fired is rejected, never
\* pending and never resolved.
Settlement(ws, log, id) ==
    /\ ws[id].promise = "resolved" =>
           /\ ws[id].timer = "cleared"
           /\ ws[id].calls = 1
           /\ \E k \in 1..Len(log) :
                  /\ log[k].to = id
                  /\ log[k].command = ws[id].command
                  /\ log[k].payload = ws[id].result
    /\ ws[id].promise = "rejected" => ws[id].timer = "fired"
    /\ ws[id].promise = "pending" => ws[id].timer = "armed" /\ ws[id].calls = 0
    /\ ws[id].calls <= 1

C10_ExactlyOnce ==
    [][\A id \in Promises :
          /\ Settlement(waiters', delivered', id)
          /\ waiters[id].promise # "pending" =>
                 /\ waiters'[id].promise = waiters[id].promise
                 /\ waiters'[id].result = waiters[id].result]_vars

\* one request resolved by its response, another rejected by its timeout
C10_Witness ==
    /\ \E id \in Promises : waiters[id].promise = "resolved" /\ waiters[id].result = <<Dollar>>
    /\ \E id \in Promises : waiters[id].promise = "rejected"
    /\ \E i \in 1..Len(writes) : writes[i].status = "failed"

(***************************************************************************)
(* Claims on the in-flight counter and on write failures (checked under    *)
(* Spec).                                                                  *)
(***************************************************************************)
\* C11: in-flight counter accounting.  commandCount is the number of send calls
\* that reached Serial.write (whatever the write's outcome) minus the number
\* of inbound frames whose checksum validated; frames dropped for a checksum
\* mismatch, framing aborts and timeouts change neither number.
C11_CounterAccounting == commandCount = Len(writes) - Len(delivered)

\* two sends, one of them failed in the write, a timer fired, one read gave a
\* validated frame and the other read gave none
C11_Witness ==
    /\ Len(writes) = 2 /\ Len(delivered) = 1 /\ readsLeft = MaxReads - 2
    /\ \E i \in 1..Len(writes) : writes[i].status = "failed"
    /\ \E id \in Promises : waiters[id].timer = "fired"
    /\ commandCount = 1

\* The runtime's scheduling: a timer that was started and is not cleared fires.
SpecLive == Spec /\ WF_vars(TimerFire)

\* the fields processResponse works on
parserVars ==
    <<state, messageBuffer, messageChecksum, messageLengthExpected,
      messageLengthReceived, command>>

\* C12: a write failure is contained.  In the step in which Serial.write fails,
\* send logs "MSP command failed" and returns (null) to its caller; the parser
\* fields, the registered callbacks, the timers and the counter are as before.
\* Every sendWithPromise call, its write failed or not, ends up settled (again
\* and again all calls made so far are settled): when no frame resolves it,
\* its timer, still running, rejects it.
C12_WriteFailureContained ==
    /\ [][\A i \in 1..Len(writes) :
             (writes[i].status = "pending" /\ writes'[i].status = "failed") =>
                 /\ lastError' = "MSP command failed"
                 /\ parserVars' = parserVars
                 /\ <<callbacks, waiters, commandCount, delivered>>'
                        = <<callbacks, waiters, commandCount, delivered>>
                 /\ \A j \in 1..Len(writes) : j # i => writes'[j] = writes[j]]_vars
    /\ []<>(\A id \in Promises : waiters[id].promise \in {"rejected", "resolved"})

\* the write of a sendWithPromise call (the only sender of a V2 frame) failed,
\* no frame reached its callback, and its timer rejected it
C12_Witness ==
    /\ \E i \in 1..Len(writes) :
          writes[i].status = "failed" /\ writes[i].frame = encodeV2(12291, <<>>)
    /\ lastError = "MSP command failed"
    /\ \E id \in Promises :
          /\ waiters[id].command = 12291 /\ waiters[id].calls = 0
          /\ waiters[id].timer = "fired" /\ waiters[id].promise = "rejected"
    /\ \A id \in Promises : waiters[id].command = 12291

(***************************************************************************)
(* Claims on the stages of the parser (checked under SpecStream).          *)
(***************************************************************************)
\* the XOR of the length, the command and the payload bytes of the frame in
\* progress
FrameSum(m) == XorAll(Xor(m.messageLengthExpected, m.command), m.messageBuffer)

ScratchCleared(m) ==
    /\ m.messageLengthExpected = 0
    /\ m.messageLengthReceived = 0
    /\ m.messageChecksum = 0
    /\ m.command = NullCommand
    /\ m.messageBuffer = <<>>

\* C13: outcome of the CHECKSUM stage.  With the parser in CHECKSUM, with or
\* without a sendWithPromise call waiting for the frame's code: a byte equal to
\* the XOR of length, command and payload bytes hands exactly one frame
\* {command, payload} to the queue and decrements the counter; any other byte
\* hands nothing to the queue, settles no waiter and leaves the counter alone;
\* either way the parser is in WAIT_DOLLAR with its scratch fields cleared.
C13_ChecksumOutcome ==
    (pc = "stream" /\ state = 6) =>
        \A waiting \in BOOLEAN :
            LET m == IF waiting THEN sendWithCallback(Cur, "promise", command) ELSE Cur
                sum == FrameSum(Cur)
            IN  \A char \in 0..255 :
                    LET n == ParseByte(m, char)
                    IN  /\ n.state = 0 /\ ScratchCleared(n)
                        /\ IF char = sum
                           THEN /\ Len(n.delivered) = Len(m.delivered) + 1
                                /\ SubSeq(n.delivered, 1, Len(m.delivered)) = m.delivered
                                /\ n.delivered[Len(n.delivered)].command = m.command
                                /\ n.delivered[Len(n.delivered)].payload = m.messageBuffer
                                /\ n.commandCount = m.commandCount - 1
                           ELSE /\ n.delivered = m.delivered
                                /\ n.waiters = m.waiters
                                /\ n.callbacks = m.callbacks
                                /\ n.commandCount = m.commandCount

\* the parser is in CHECKSUM on a frame with a changed payload byte: the next
\* byte of the stream is not the XOR; a frame was validated before
C13_Witness ==
    /\ pc = "stream" /\ input.kind = "corrupt" /\ state = 6
    /\ pos = Len(Corrupted(input)) - 1
    /\ messageLengthExpected = 2
    /\ wire[pos + 1] # FrameSum(Cur)

\* C14: resynchronization.  After stray bytes that leave the parser in
\* WAIT_DOLLAR, WAIT_MARKER or WAIT_DIRECTION, a complete valid frame fed next
\* is decoded and emitted (a stray '$' in front of a frame does not cost the
\* frame).
C14_Resynchronizes ==
    (/\ pc = "stream" /\ input.kind = "resync"
     /\ processResponse(NewMsp, input.junk).state \in 0..2
     /\ pos = Len(wire))
        => /\ delivered = <<Frame(input.second.command, input.second.payload)>>
           /\ state = 0

\* C15: the scratch fields are reset between frames.  Whenever the parser is in
\* WAIT_DOLLAR, WAIT_MARKER, WAIT_DIRECTION or LENGTH, expected length,
\* received count and checksum are 0, the command is null and the payload
\* buffer is empty: after a completed frame, after a checksum failure and
\* after an abort at the marker or the direction.
C15_ScratchReset ==
    (pc = "stream" /\ state \in 0..3) => ScratchCleared(Cur)

\* in LENGTH of the frame that follows a frame dropped for its checksum
C15_Witness ==
    /\ pc = "stream" /\ input.kind = "corrupt"
    /\ pos = Len(Corrupted(input)) + 3
    /\ state = 3 /\ delivered = <<>> /\ ScratchCleared(Cur)

\* C16: the in-flight counter counts sent-but-unacknowledged commands and is
\* never negative, whatever sends and inbound bytes (unsolicited valid frames
\* and valid frames of direction '<' included) are interleaved.
C16_NeverNegative == commandCount >= 0

\* C17: payload bounds.  In every state 0 <= messageLengthReceived <=
\* messageLengthExpected <= 255 and the payload buffer has
\* messageLengthExpected bytes; in PAYLOAD messageLengthExpected > 0 and
\* messageLengthReceived < messageLengthExpected, so the next payload byte is
\* stored inside the buffer; from COMMAND a frame of length 0 goes to CHECKSUM
\* and any other to PAYLOAD.
C17_PayloadBounds ==
    pc = "stream" =>
        /\ 0 <= messageLengthReceived
        /\ messageLengthReceived <= messageLengthExpected
        /\ messageLengthExpected <= 255
        /\ Len(messageBuffer) = messageLengthExpected
        /\ state = 5 =>
               /\ messageLengthExpected > 0
               /\ messageLengthReceived < messageLengthExpected
               /\ messageLengthReceived + 1 \in DOMAIN messageBuffer
        /\ state = 4 =>
               \A char \in 0..255 :
                   ParseByte(Cur, char).state = IF messageLengthExpected = 0 THEN 6 ELSE 5

\* one byte short of a full 255-byte payload
C17_Witness ==
    /\ pc = "stream" /\ state = 5
    /\ messageLengthExpected = 255 /\ messageLengthReceived = 254

\* The most bytes a parser in state m can take before it is in WAIT_DOLLAR
\* again: what is left of 'M', direction, length, command, 255 payload bytes
\* and checksum.
BytesToReset(m) ==
    CASE m.state = 1 -> 260
      [] m.state = 2 -> 259
      [] m.state = 3 -> 258
      [] m.state = 4 -> m.messageLengthExpected + 2
      [] m.state = 5 -> (m.messageLengthExpected - m.messageLengthReceived) + 1
      [] m.state = 6 -> 1
      [] OTHER -> 0

\* a byte for each way a stage can take its input: the bytes the stages
\* compare with, the checksum awaited, and the lengths 0, 1 and 255
ProbeBytes(m) == {0, 1, Dollar, CharM, CharX, CharLt, CharGt, 255, m.messageChecksum}

\* C18: no absorbing stage.  Outside WAIT_DOLLAR every further byte, whatever
\* its value, either brings the parser to WAIT_DOLLAR or leaves it strictly
\* fewer bytes to go, of at most 260; the stage changes only to the next
\* stage, from COMMAND to CHECKSUM, or to WAIT_DOLLAR, and only WAIT_DOLLAR
\* and PAYLOAD keep the stage over a byte.
C18_NoAbsorbingStage ==
    pc = "stream" =>
        /\ state \in 0..6
        /\ BytesToReset(Cur) <= 260
        /\ \A char \in ProbeBytes(Cur) :
              LET n == ParseByte(Cur, char)
              IN  /\ \/ n.state = 0
                     \/ n.state = state + 1
                     \/ state = 4 /\ n.state = 6
                     \/ state = 5 /\ n.state = 5
                  /\ state # 0 => BytesToReset(n) < BytesToReset(Cur)

\* a 255-byte frame went through: WAIT_DOLLAR again 260 bytes after its '$'
C18_Witness ==
    /\ pc = "stream" /\ Len(wire) = 261 /\ pos = Len(wire)
    /\ state = 0 /\ Len(delivered) = 1 /\ Len(delivered[1].payload) = 255

(***************************************************************************)
(* The V2 specification: sendWithPromise calls for command codes above     *)
(* 254, which send encodes in the V2 format, and what the device may       *)
(* answer.                                                                 *)
(***************************************************************************)
V2Commands == {255, 257}

\* a V2 frame as the device puts it on the wire
V2Response(c, p) == SwapDirection(encodeV2(c, p))

\* V2 responses (one of them carrying the bytes of a V1 frame as its payload)
\* and V1 frames whose command byte is the code, or its low byte
V2Chunks ==
    {V2Response(255, <<>>), V2Response(257, <<>>),
     V2Response(257, V1Frame(CharGt, 1, <<>>)),
     V1Frame(CharGt, 255, <<>>), V1Frame(CharGt, 1, <<>>)}

SendV2 ==
    /\ Len(writes) < MaxSends
    /\ \E c \in V2Commands :
        /\ writes' = Append(writes, [frame |-> sendFrame(c, FALSE, <<>>), status |-> "pending"])
        /\ Install(sendWithCallback(Cur, "promise", c))
    /\ UNCHANGED <<readsLeft, harness>>

\* read(): `wire` keeps the chunk Serial.read returned
ReadV2 ==
    /\ readsLeft > 0
    /\ \E chunk \in V2Chunks :
        /\ Install(processResponse(Cur, chunk))
        /\ wire' = chunk
    /\ readsLeft' = readsLeft - 1
    /\ UNCHANGED <<writes, input, pos, pc>>

NextV2 == SendV2 \/ WriteDone \/ WriteFail \/ TimerFire \/ ReadV2

SpecV2 == Init /\ [][NextV2]_vars

(***************************************************************************)
(* Claims on V2 responses (checked under SpecV2).                          *)
(***************************************************************************)
EmittedInRange(log) ==
    \A k \in 1..Len(log) :
        log[k].command \in 0..255 /\ Len(log[k].payload) \in 0..255

StartsWithDollarX(chunk) == Len(chunk) >= 2 /\ chunk[1] = Dollar /\ chunk[2] = CharX

OnlyTimeout(w) ==
    /\ w.promise # "resolved"
    /\ w.calls = 0
    /\ w.promise = "rejected" => w.timer = "fired"

\* C19: V2 responses are never correlated.  In every step: every frame the
\* parser has emitted has a command in 0..255 and a payload of 0..255 bytes; a
\* read of bytes beginning with '$','X' produces no frame; a sendWithPromise
\* call for a command code above 254 is settled by its timeout only, whatever
\* bytes arrive.
C19_V2NeverCorrelated ==
    [][/\ EmittedInRange(delivered')
       /\ (readsLeft' # readsLeft /\ StartsWithDollarX(wire')) => delivered' = delivered
       /\ \A id \in 1..Len(waiters') :
             waiters'[id].command > 254 => OnlyTimeout(waiters'[id])]_vars

\* C19 as amended: in every step, every frame the parser has emitted has a
\* command in 0..255 and a payload of 0..255 bytes; a read of bytes beginning
\* with '$','X' that hold no further '$' produces no frame; a sendWithPromise
\* call for a command code above 255 is settled by its timeout only, whatever
\* bytes arrive.
C19_V2NeverCorrelatedAbove255 ==
    [][/\ EmittedInRange(delivered')
       /\ (/\ readsLeft' # readsLeft
           /\ StartsWithDollarX(wire')
           /\ \A i \in 3..Len(wire') : wire'[i] # Dollar) => delivered' = delivered
       /\ \A id \in 1..Len(waiters') :
             waiters'[id].command > 255 => OnlyTimeout(waiters'[id])]_vars

\* a call for code 257 rejected by its timer after two reads, one of which
\* gave a frame
C19_Witness ==
    /\ readsLeft = 0 /\ Len(delivered) >= 1
    /\ \E id \in Promises :
          /\ waiters[id].command = 257 /\ waiters[id].calls = 0
          /\ waiters[id].timer = "fired" /\ waiters[id].promise = "rejected"

(***************************************************************************)
(* Claim on the direction byte (checked under SpecStream).                 *)
(***************************************************************************)
\* the scenario with every frame sent as a response ('>')
AsResponse(f) == [f EXCEPT !.dir = CharGt]

AsResponses(sc) ==
    CASE sc.kind = "frames" ->
            [sc EXCEPT !.frames = [i \in DOMAIN sc.frames |-> AsResponse(sc.frames[i])]]
      [] sc.kind = "corrupt" ->
            [sc EXCEPT !.first = AsResponse(@), !.second = AsResponse(@)]
      [] sc.kind = "resync" -> [sc EXCEPT !.second = AsResponse(@)]
      [] OTHER -> sc

FirstFrame(sc) ==
    CASE sc.kind = "frames" -> sc.frames[1]
      [] sc.kind = "corrupt" -> sc.first
      [] OTHER -> sc.second

\* the instance when sendWithPromise was called for the code of the
\* scenario's first frame before the stream arrived
Waiting(sc) == sendWithCallback(NewMsp, "promise", FirstFrame(sc).command)

\* C20: the direction does not influence decoding.  A stream and the stream
\* that differs from it only in direction bytes ('<' in place of '>') take
\* the parser through the same stages, byte for byte, emit the same frames and
\* change the counter alike, so any two streams that differ only in direction
\* bytes do; with a sendWithPromise call waiting for the code the waiters end
\* up alike too, and a valid frame of direction '<' resolves the call with its
\* payload.
C20_DirectionIgnored ==
    (pc = "stream" /\ input.kind \in {"frames", "corrupt", "resync"}) =>
        LET own == SubSeq(wire, 1, pos)
            twin == SubSeq(StreamOf(AsResponses(input)), 1, pos)
            answered == processResponse(Waiting(input), own)
        IN  /\ Cur = processResponse(NewMsp, twin)
            /\ answered = processResponse(Waiting(input), twin)
            /\ (input.kind = "frames" /\ pos >= Len(FrameBytes(input.frames[1]))) =>
                   /\ answered.waiters[1].promise = "resolved"
                   /\ answered.waiters[1].result = input.frames[1].payload

\* two frames went through, the first of direction '<', and a call waiting
\* for its code is resolved by it
C20_Witness ==
    /\ pc = "stream" /\ input.kind = "frames" /\ Len(input.frames) = 2
    /\ input.frames[1].dir = CharLt /\ input.frames[1].payload = <<Dollar, 255>>
    /\ pos = Len(wire) /\ Len(delivered) = 2
    /\ delivered[1].payload = input.frames[1].payload
    /\ processResponse(Waiting(input), wire).waiters[1].promise = "resolved"

====
